---- MODULE Spec2Model ----
(***************************************************************************)
(* Approximate personalized PageRank by local push (AMiner/pprfile.py):    *)
(* the push loop (_calc_ppr_node, _calc_gpr_node), the batch drivers       *)
(* (calc_ppr_topk_parallel, calc_gpr_topk_parallel), the sparse assembler  *)
(* (construct_sparse) and the normalizer (topk_ppr_matrix).                *)
(*                                                                         *)
(* Numbers are rationals <<n, d>> in lowest terms with d > 0.  The IEEE    *)
(* values a division by zero produces under numpy are <<1, 0>> (inf),      *)
(* <<-1, 0>> (-inf) and <<0, 0>> (nan).  A binary fraction m / 2^e is a    *)
(* float: float32 sums and products are rounded to 24 significant bits,    *)
(* ties to even, and float64 ones are exact, no float64 value met here     *)
(* having more than 30 bits.  The exponent range is not bounded (nothing   *)
(* underflows), and a quotient by a degree that is not a power of two is   *)
(* kept as the exact rational.                                             *)
(*                                                                         *)
(* Rows (tasks, classes) and nodes are numbered from 0 as in the source;   *)
(* TLA+ sequences are indexed from 1.                                      *)
(***************************************************************************)
EXTENDS Integers, Sequences, FiniteSets, TLC

\* ------------------------------------------------------------------ bounds
NNodes == 3
MaxOneWay == 1
MaxTopk == 2
MaxLabel == 2

Node == 0 .. (NNodes - 1)

\* ----------------------------------------------------------------- numbers
\* (Operands are bound through singleton sets, so that each is computed once
\* however deeply the expressions nest.)
RECURSIVE Gcd(_, _)
Gcd(a, b) ==
    IF b = 0 THEN a
    ELSE CHOOSE g \in {Gcd(y, x % y) : x \in {a}, y \in {b}} : TRUE

Abs(x) == IF x < 0 THEN -x ELSE x

Sign(x) == IF x > 0 THEN 1 ELSE IF x < 0 THEN -1 ELSE 0

NormOf(n, d) ==
    IF d = 0 THEN <<Sign(n), 0>>
    ELSE CHOOSE z \in {<<n \div g, d \div g>> : g \in {Gcd(Abs(n), d)}} : TRUE

Norm(n, d) == CHOOSE z \in {NormOf(x, y) : x \in {n}, y \in {d}} : TRUE

Zero == <<0, 1>>
One == <<1, 1>>
Inf == <<1, 0>>
NaN == <<0, 0>>

IsFinite(x) == x[2] # 0
IsNaN(x) == x = NaN

Lcm(a, b) == (a \div Gcd(a, b)) * b

\* float32: a binary fraction m / 2^e keeps 24 significant bits.  It is written
\* <<m, 2^e>> in lowest terms while e <= 30 and <<m, -e>>, m odd, beyond.
RECURSIVE BitLen(_)
BitLen(n) ==
    IF n = 0 THEN 0
    ELSE CHOOSE z \in {1 + BitLen(h) : h \in {n \div 2}} : TRUE

IsPow2(d) == d > 0 /\ 2 ^ (BitLen(d) - 1) = d

IsDyadic(x) == x[2] < 0 \/ IsPow2(x[2])

\* e of m / 2^e
Expo(x) == IF x[2] < 0 THEN -x[2] ELSE BitLen(x[2]) - 1

\* A case the arithmetic below does not cover: evaluating it is an error.
Uncovered == CHOOSE z \in {} : TRUE

\* The number of trailing zero bits of m > 0.
RECURSIVE TrailingZeros(_)
TrailingZeros(m) ==
    IF m % 2 = 1 THEN 0
    ELSE CHOOSE z \in {1 + TrailingZeros(h) : h \in {m \div 2}} : TRUE

\* m / 2^e as it is written.
Dyadic(m, e) ==
    IF m = 0 THEN Zero
    ELSE CHOOSE z \in {IF e - t < 0 THEN <<(m \div (2 ^ t)) * (2 ^ (t - e)), 1>>
                       ELSE IF e - t <= 30 THEN <<m \div (2 ^ t), 2 ^ (e - t)>>
                       ELSE <<m \div (2 ^ t), t - e>> :
                          t \in {TrailingZeros(Abs(m))}} : TRUE

\* n / 2^e, n >= 0, rounded to 24 significant bits, ties to even; sticky tells
\* that the exact value lies above n / 2^e by less than one unit of n.
Round24(n, e, sticky) ==
    CHOOSE z \in {IF k <= 0 THEN Dyadic(n, e)
                  ELSE CHOOSE w \in
                      {Dyadic(qt + (IF rem > half \/ (rem = half /\ (sticky \/ qt % 2 = 1))
                                    THEN 1 ELSE 0), e - k) :
                          qt \in {n \div (2 ^ k)}, rem \in {n % (2 ^ k)},
                          half \in {2 ^ (k - 1)}} : TRUE :
                     k \in {BitLen(n) - 24}} : TRUE

\* c + f for binary fractions whose sum is not negative, Expo(c) <= Expo(f):
\* c is shifted up as far as 30 bits allow and f down by the rest.
FAddAligned(c, f) ==
    IF c[1] = 0 THEN Round24(f[1], Expo(f), FALSE)
    ELSE CHOOSE z \in
        {CHOOSE w \in
            {Round24(c[1] * (2 ^ t)
                     + (IF d > 30 THEN (IF f[1] < 0 THEN -1 ELSE 0) ELSE f[1] \div (2 ^ d)),
                     Expo(c) + t,
                     IF d > 30 THEN f[1] # 0 ELSE f[1] % (2 ^ d) # 0) :
                d \in {s - t}} : TRUE :
            s \in {Expo(f) - Expo(c)},
            t \in {IF Expo(f) - Expo(c) < 30 - BitLen(Abs(c[1]))
                   THEN Expo(f) - Expo(c)
                   ELSE IF 30 - BitLen(Abs(c[1])) > 0 THEN 30 - BitLen(Abs(c[1]))
                   ELSE 0}} : TRUE

FAddPos(x, y) == IF Expo(x) <= Expo(y) THEN FAddAligned(x, y) ELSE FAddAligned(y, x)

\* x >= y for positive binary fractions: by the place of the leading bit, then
\* by the mantissas aligned at 30 bits.
MagGeq(x, y) ==
    \E lx \in {BitLen(x[1])} : \E ly \in {BitLen(y[1])} :
        IF lx - Expo(x) # ly - Expo(y) THEN lx - Expo(x) > ly - Expo(y)
        ELSE x[1] * (2 ^ (30 - lx)) >= y[1] * (2 ^ (30 - ly))

Neg(x) == CHOOSE z \in {<<-a[1], a[2]>> : a \in {x}} : TRUE

FGeq(x, y) ==
    IF Sign(x[1]) # Sign(y[1]) THEN Sign(x[1]) > Sign(y[1])
    ELSE IF x[1] = 0 THEN TRUE
    ELSE IF x[1] > 0 THEN MagGeq(x, y)
    ELSE MagGeq(Neg(y), Neg(x))

FAdd(x, y) ==
    IF FGeq(x, Neg(y)) THEN FAddPos(x, y) ELSE Neg(FAddPos(Neg(x), Neg(y)))

FMul(x, y) ==
    CHOOSE z \in {IF m < 0 THEN Neg(Round24(-m, e, FALSE)) ELSE Round24(m, e, FALSE) :
                     m \in {x[1] * y[1]}, e \in {Expo(x) + Expo(y)}} : TRUE

AddOf(x, y) ==
    IF ~IsFinite(x) /\ ~IsFinite(y) THEN (IF x = y THEN x ELSE NaN)
    ELSE IF ~IsFinite(x) THEN x
    ELSE IF ~IsFinite(y) THEN y
    ELSE IF IsDyadic(x) /\ IsDyadic(y) THEN FAdd(x, y)
    ELSE IF x[2] < 0 \/ y[2] < 0 THEN Uncovered
    ELSE CHOOSE z \in {NormOf(x[1] * (l \div x[2]) + y[1] * (l \div y[2]), l) :
                          l \in {Lcm(x[2], y[2])}} : TRUE

Add(x, y) == CHOOSE z \in {AddOf(a, b) : a \in {x}, b \in {y}} : TRUE

Sub(x, y) == Add(x, Neg(y))

MulOf(x, y) ==
    IF IsDyadic(x) /\ IsDyadic(y) THEN FMul(x, y)
    ELSE IF x[2] < 0 \/ y[2] < 0 THEN Uncovered
    ELSE NormOf(x[1] * y[1], x[2] * y[2])

Mul(x, y) == CHOOSE z \in {MulOf(a, b) : a \in {x}, b \in {y}} : TRUE

MulInt(x, k) == Mul(x, <<k, 1>>)

\* The float64 operations: exact, since every float64 value met here has fewer
\* than 31 significant bits (a longer one overflows and stops the run).
XAdd(x, y) ==
    IF x[1] = 0 THEN y
    ELSE IF y[1] = 0 THEN x
    ELSE CHOOSE z \in {Dyadic(x[1] * (2 ^ (e - Expo(x))) + y[1] * (2 ^ (e - Expo(y))), e) :
                          e \in {IF Expo(x) >= Expo(y) THEN Expo(x) ELSE Expo(y)}} : TRUE

AddXOf(x, y) ==
    IF IsFinite(x) /\ IsFinite(y) /\ IsDyadic(x) /\ IsDyadic(y) THEN XAdd(x, y)
    ELSE AddOf(x, y)

AddX(x, y) == CHOOSE z \in {AddXOf(a, b) : a \in {x}, b \in {y}} : TRUE

SubX(x, y) == AddX(x, Neg(y))

MulXOf(x, y) ==
    IF IsDyadic(x) /\ IsDyadic(y) THEN Dyadic(x[1] * y[1], Expo(x) + Expo(y))
    ELSE MulOf(x, y)

MulX(x, y) == CHOOSE z \in {MulXOf(a, b) : a \in {x}, b \in {y}} : TRUE

\* The conversion of a float64 value to float32.
Cast32Of(x) ==
    IF ~IsFinite(x) \/ ~IsDyadic(x) THEN x
    ELSE IF x[1] < 0 THEN Neg(Round24(-x[1], Expo(x), FALSE))
    ELSE Round24(x[1], Expo(x), FALSE)

Cast32(x) == CHOOSE z \in {Cast32Of(a) : a \in {x}} : TRUE

\* x / k for an integer k >= 0; k = 0 gives inf, -inf or nan as IEEE division does.
DivOf(x, k) ==
    IF k = 0 THEN <<Sign(x[1]), 0>>
    ELSE IF ~IsFinite(x) THEN x
    ELSE IF IsDyadic(x) /\ IsPow2(k) THEN Dyadic(x[1], Expo(x) + BitLen(k) - 1)
    ELSE IF x[2] < 0 THEN Uncovered
    ELSE NormOf(x[1], x[2] * k)

DivInt(x, k) == CHOOSE z \in {DivOf(a, b) : a \in {x}, b \in {k}} : TRUE

\* x >= y; every comparison with nan is false.
GeqOf(x, y) ==
    IF IsNaN(x) \/ IsNaN(y) THEN FALSE
    ELSE IF ~IsFinite(x) /\ ~IsFinite(y) THEN x[1] >= y[1]
    ELSE IF ~IsFinite(x) THEN x[1] > 0
    ELSE IF ~IsFinite(y) THEN y[1] < 0
    ELSE IF IsDyadic(x) /\ IsDyadic(y) THEN FGeq(x, y)
    ELSE IF x[2] < 0 \/ y[2] < 0 THEN Uncovered
    ELSE x[1] * y[2] >= y[1] * x[2]

Geq(x, y) == \E a \in {x} : \E b \in {y} : GeqOf(a, b)

Gt(x, y) == \E a \in {x} : \E b \in {y} : GeqOf(a, b) /\ a # b

Leq(x, y) == Geq(y, x)

RAbs(x) == CHOOSE z \in {<<Abs(a[1]), a[2]>> : a \in {x}} : TRUE

\* ------------------------------------------------------------ dictionaries
\* A dict is the sequence of its <<key, value>> items in insertion order.
Has(d, k) == \E i \in 1 .. Len(d) : d[i][1] = k

Get(d, k) == d[CHOOSE i \in 1 .. Len(d) : d[i][1] = k][2]

SetOf(d, k, v) ==
    IF Has(d, k)
    THEN [i \in 1 .. Len(d) |-> IF d[i][1] = k THEN <<k, v>> ELSE d[i]]
    ELSE Append(d, <<k, v>>)

Set(d, k, v) == CHOOSE z \in {SetOf(a, b, c) : a \in {d}, b \in {k}, c \in {v}} : TRUE

Keys(d) == [i \in 1 .. Len(d) |-> d[i][1]]

Values(d) == [i \in 1 .. Len(d) |-> d[i][2]]

KeySet(d) == {d[i][1] : i \in 1 .. Len(d)}

InSeq(x, s) == \E i \in 1 .. Len(s) : s[i] = x

RECURSIVE SumFrom(_, _)
SumFrom(s, k) == IF k > Len(s) THEN Zero ELSE Add(s[k], SumFrom(s, k + 1))

SumSeq(s) == CHOOSE z \in {SumFrom(t, 1) : t \in {s}} : TRUE

\* The elements of a set of integers in ascending order.
RECURSIVE SortedFrom(_)
SortedFrom(S) ==
    IF S = {} THEN <<>>
    ELSE CHOOSE z \in {<<m>> \o SortedFrom(S \ {m}) :
                          m \in {x \in S : \A y \in S : x <= y}} : TRUE

SortedSeq(S) == CHOOSE z \in {SortedFrom(T) : T \in {S}} : TRUE

RECURSIVE ConcatFrom(_, _)
ConcatFrom(ss, k) == IF k > Len(ss) THEN <<>> ELSE ss[k] \o ConcatFrom(ss, k + 1)

Concat(ss) == CHOOSE z \in {ConcatFrom(t, 1) : t \in {ss}} : TRUE

\* ------------------------------------------------------------------- state
VARIABLES
    entry,          \* the function called: "ppr_topk", "topk_ppr_matrix", "topk_gpr_matrix"
    indptr,         \* CSR row offsets, indptr[u + 1] is the source's indptr[u]
    indices,        \* CSR neighbour ids
    deg,            \* out_degree, one count per node
    nsrc,           \* adj_matrix.size(0) of topk_ppr_matrix (0 for the other entries)
    alpha, epsilon, \* restart probability and tolerance
    nodes,          \* the seeds: nodes (idx) of the per-node drivers
    train_idx,      \* the class label of each node (topk_gpr_matrix)
    topk,
    stable,         \* whether argsort leaves equal values in index order
    normalization, flag,
    tpc,            \* per row: "idle", "loop", "done", "error"
    p, r, q,        \* per row: the push computation's settled dict, residual dict, worklist
    unode,          \* per row: the node popped last (-1 before the first pop)
    js, vals,       \* the output arrays of the batch driver
    pc,             \* "batch", "assembled", "returned", "raised"
    matrix,         \* topk_matrix: the set of stored entries
    ret             \* what the entry returned or raised

graphView == <<indptr, indices, deg, nsrc>>
params == <<entry, alpha, epsilon, nodes, train_idx, topk, stable, normalization, flag>>
tasks == <<tpc, p, r, q, unode>>
outputs == <<js, vals>>
vars == <<graphView, params, tasks, outputs, pc, matrix, ret>>

\* ------------------------------------------------------------- graph view
\* indices[indptr[u]:indptr[u + 1]]
Row(u) == SubSeq(indices, indptr[u + 1] + 1, indptr[u + 2])

RowLen(u) == indptr[u + 2] - indptr[u + 1]

\* The CSR arrays of a set of directed edges <<u, v>>, columns ascending.
RowOf(edges, u) == SortedSeq({e[2] : e \in {f \in edges : f[1] = u}})

IndicesOf(edges) == Concat([k \in 1 .. NNodes |-> RowOf(edges, k - 1)])

IndptrOf(edges) ==
    [k \in 1 .. (NNodes + 1) |-> Cardinality({e \in edges : e[1] < k - 1})]

\* out_degree = np.sum(adj_matrix > 0, axis=1): the stored entries of row u whose
\* weight is positive; pos[k] tells whether the k-th stored entry is.
OutDegree(ptr, pos, u) ==
    Cardinality({k \in (ptr[u + 1] + 1) .. ptr[u + 2] : pos[k]})

\* --------------------------------------------------------------- the push
\* Whether the push is the compiled one.  _calc_ppr_node is compiled by
\* numba's njit with _val, res and res_vnode (and the values of p and r) typed
\* float32, and a division by zero raises (error_model 'python').  The
\* decorator of _calc_gpr_node is commented out: its numbers are numpy scalars,
\* float32 for alpha, 1 - alpha and f32_0 and float64 from the first division
\* by deg[unode] (an int64) on, and a division by zero yields inf or nan.
DivRaises == entry # "topk_gpr_matrix"

alpha_eps == Mul(alpha, epsilon)

\* The seeds of row i: nodes[i], or np.where(train_idx == i)[0].
Seeds(i) ==
    IF entry = "topk_gpr_matrix"
    THEN SortedSeq({x \in Node : train_idx[x + 1] = i})
    ELSE <<nodes[i + 1]>>

NRows == IF entry = "topk_gpr_matrix" THEN
             (CHOOSE m \in 0 .. NNodes :
                  /\ \E x \in Node : train_idx[x + 1] = m
                  /\ \A x \in Node : train_idx[x + 1] <= m) + 1
         ELSE Len(nodes)

Rows == 0 .. (NRows - 1)

\* p = {inode: f32_0}; r[inode] = alpha; q = [inode], for every seed.
PushInit(seeds) ==
    [p |-> [k \in 1 .. Len(seeds) |-> <<seeds[k], Zero>>],
     r |-> [k \in 1 .. Len(seeds) |-> <<seeds[k], alpha>>],
     q |-> seeds,
     st |-> "loop",
     unode |-> -1,
     njit |-> DivRaises]

\* The threshold taken from alpha alone, epsilon forgotten.
ActiveNoEps(res_vnode, vnode) == Geq(res_vnode, MulX(alpha, <<deg[vnode], 1>>))

\* The threshold test of one neighbour: res_vnode >= alpha_eps * deg[vnode],
\* the product of a float32 and an int64 being a float64.
Active(res_vnode, vnode) == Geq(res_vnode, MulX(alpha_eps, <<deg[vnode], 1>>))

\* The share forwarded without the (1 - alpha) factor.
PushValWhole(s, res, u) == DivInt(res, deg[u])

\* (1 - alpha) * res of the uncompiled push: 1 - alpha is a float32, and the
\* product is a float32 when res is (a seed's initial alpha or f32_0) and a
\* float64 when res is a sum of received shares.  The two differ only when the
\* product has more than 24 significant bits, and then a res other than alpha
\* is a float64; of a res equal to alpha the state does not tell the type.
ShareOf(res) ==
    CHOOSE z \in {IF narrow = wide THEN wide
                  ELSE IF res # alpha THEN wide
                  ELSE Uncovered :
                     narrow \in {Mul(Sub(One, alpha), res)},
                     wide \in {MulX(Sub(One, alpha), res)}} : TRUE

\* _val = (1 - alpha) * res / deg[unode].  Compiled, 1 - alpha (an int64 less
\* a float32), the product and the quotient are float64 and _val is their
\* conversion to float32.
PushVal(s, res, u) ==
    IF s.njit THEN Cast32(DivInt(MulX(SubX(One, alpha), res), deg[u]))
    ELSE DivInt(ShareOf(res), deg[u])

\* The worklist appended to without looking whether vnode is in it.
EnqueueAgain(s, vnode) ==
    [s EXCEPT !.q = IF Active(Get(s.r, vnode), vnode)
                    THEN Append(s.q, vnode) ELSE s.q]

\* The worklist after the threshold test of vnode.
Enqueue(s, vnode) ==
    [s EXCEPT !.q = IF Active(Get(s.r, vnode), vnode) /\ ~InSeq(vnode, s.q)
                    THEN Append(s.q, vnode) ELSE s.q]

\* r[vnode] += _val, or r[vnode] = _val: a float32 sum in the compiled push,
\* a float64 sum in the other (_val is a float64 there).
AddResidual(s, vnode, _val) ==
    [s EXCEPT !.r = Set(s.r, vnode,
                        IF ~Has(s.r, vnode) THEN _val
                        ELSE IF s.njit THEN Add(Get(s.r, vnode), _val)
                        ELSE AddX(Get(s.r, vnode), _val))]

\* One iteration of the for loop over the neighbours of the popped node.
Relax(s, u, res, vnode) ==
    IF s.st = "error" THEN s
    ELSE IF s.njit /\ deg[u] = 0 THEN [s EXCEPT !.st = "error"]
    ELSE CHOOSE t \in {Enqueue(s1, vnode) :
                          s1 \in {AddResidual(s, vnode, _val) :
                                     _val \in {PushVal(s, res, u)}}} : TRUE

\* The for loop over the neighbours of the popped node.  (The state after
\* each neighbour is bound through a singleton set so that it is computed
\* once.)
RECURSIVE ForNeighbors(_, _, _, _)
ForNeighbors(s, u, res, row) ==
    IF row = <<>> THEN s
    ELSE CHOOSE t \in {ForNeighbors(s1, u, res, Tail(row)) :
                          s1 \in {Relax(s, u, res, Head(row))}} : TRUE

\* The popped residual stored over what was settled before.
SettleLast(s, u, res) == Set(s.p, u, res)

\* A popped node settled only when p holds it already.
SettleKnown(s, u, res) == IF Has(s.p, u) THEN Set(s.p, u, Add(Get(s.p, u), res)) ELSE s.p

\* The value settled for the popped node: p[unode] += res, or p[unode] = res;
\* the sum is a float32 in the compiled push and a float64 in the other
\* (f32_0 + alpha, of two float32, is exact).
Settle(s, u, res) ==
    Set(s.p, u, IF ~Has(s.p, u) THEN res
                ELSE IF s.njit THEN Add(Get(s.p, u), res)
                ELSE AddX(Get(s.p, u), res))

\* One iteration of the while loop: pop, settle, redistribute.
PopStep(s) ==
    LET u == s.q[Len(s.q)]
        res == IF Has(s.r, u) THEN Get(s.r, u) ELSE Zero
    IN  CHOOSE t \in {ForNeighbors(s1, u, res, Row(u)) :
                         s1 \in {[p |-> Settle(s, u, res),
                                  r |-> Set(s.r, u, Zero),
                                  q |-> SubSeq(s.q, 1, Len(s.q) - 1),
                                  st |-> "loop",
                                  unode |-> u,
                                  njit |-> s.njit]}} : TRUE

\* ------------------------------------------------------------------- top-k
\* Whether value x sorts before value y; nan sorts last.
Less(x, y) == IF IsNaN(x) THEN FALSE ELSE IF IsNaN(y) THEN TRUE ELSE Gt(y, x)

\* np.argsort(val_np): the positions of v in ascending order of value.  Equal
\* values keep their index order when the sort is stable and are reversed
\* when it is not.
Argsort(v) ==
    LET n == Len(v)
        Before(a, b) == \/ Less(v[a], v[b])
                        \/ /\ ~Less(v[b], v[a])
                           /\ IF stable THEN a < b ELSE a > b
        Pos(a) == 1 + Cardinality({b \in 1 .. n : Before(b, a)})
    IN  [k \in 1 .. n |-> CHOOSE a \in 1 .. n : Pos(a) = k]

\* The first topk positions of the ascending order instead of the last.
IdxLowest(v) ==
    LET n == Len(v)
        a == Argsort(v)
    IN  IF topk > 0
        THEN (IF topk >= n THEN a ELSE SubSeq(a, 1, topk))
        ELSE [k \in 1 .. n |-> k]

\* idx_topk = np.argsort(val_np)[-topk:] when topk > 0, every position otherwise.
IdxTopk(v) ==
    LET n == Len(v)
        a == Argsort(v)
    IN  IF topk > 0
        THEN (IF topk >= n THEN a ELSE SubSeq(a, n - topk + 1, n))
        ELSE [k \in 1 .. n |-> k]

Take(arr, idx) == [k \in 1 .. Len(idx) |-> arr[idx[k]]]

\* Every row writing the first slot of the output arrays.
SlotShared(i) == i - i

\* The slot of the output arrays row i writes: js[i], vals[i].
Slot(i) == i

\* The while loop run to its end: until the worklist is empty or the division
\* raises.
RECURSIVE RunPush(_)
RunPush(s) ==
    IF s.st = "error" \/ s.q = <<>> THEN s
    ELSE CHOOSE t \in {RunPush(s1) : s1 \in {PopStep(s)}} : TRUE

\* Row i of the sequential driver: j, val of the push run on its own from the
\* seeds of row i.
calc_ppr(i) ==
    CHOOSE t \in {<<Keys(s.p), Values(s.p)>> :
                     s \in {RunPush(PushInit(Seeds(i)))}} : TRUE

\* ----------------------------------------------------------- batch driver
\* Row i starts its push computation (the lines before the while loop).  The
\* prange of calc_ppr_topk_parallel runs rows on parallel workers; the loop
\* of calc_gpr_topk_parallel is not compiled and runs them in order.
Start(i) ==
    /\ pc = "batch"
    /\ tpc[i] = "idle"
    /\ entry = "topk_gpr_matrix" => \A j \in Rows : j < i => tpc[j] = "done"
    /\ \E s \in {PushInit(Seeds(i))} :
           /\ p' = [p EXCEPT ![i] = s.p]
           /\ r' = [r EXCEPT ![i] = s.r]
           /\ q' = [q EXCEPT ![i] = s.q]
    /\ tpc' = [tpc EXCEPT ![i] = "loop"]
    /\ UNCHANGED <<graphView, params, unode, outputs, pc, matrix, ret>>

\* One iteration of row i's while loop.  A ZeroDivisionError leaves the call.
Pop(i) ==
    /\ pc = "batch"
    /\ tpc[i] = "loop"
    /\ Len(q[i]) > 0
    /\ \E s \in {PopStep([p |-> p[i], r |-> r[i], q |-> q[i],
                          st |-> "loop", unode |-> unode[i],
                          njit |-> DivRaises])} :
           /\ p' = [p EXCEPT ![i] = s.p]
           /\ r' = [r EXCEPT ![i] = s.r]
           /\ q' = [q EXCEPT ![i] = s.q]
           /\ unode' = [unode EXCEPT ![i] = s.unode]
           /\ tpc' = [tpc EXCEPT ![i] = s.st]
           /\ pc' = IF s.st = "error" THEN "raised" ELSE pc
           /\ ret' = IF s.st = "error" THEN <<"ZeroDivisionError", "">> ELSE ret
    /\ UNCHANGED <<graphView, params, outputs, matrix>>

\* The worklist of row i is empty: the push returns list(p.keys()),
\* list(p.values()) and the driver stores the row, truncated when topk > 0.
Finish(i) ==
    /\ pc = "batch"
    /\ tpc[i] = "loop"
    /\ Len(q[i]) = 0
    /\ \E j_np \in {Keys(p[i])} : \E val_np \in {Values(p[i])} :
           \E idx_topk \in {IdxTopk(val_np)} :
               /\ js' = [js EXCEPT ![Slot(i)] = Take(j_np, idx_topk)]
               /\ vals' = [vals EXCEPT ![Slot(i)] = Take(val_np, idx_topk)]
    /\ tpc' = [tpc EXCEPT ![i] = "done"]
    /\ UNCHANGED <<graphView, params, p, r, q, unode, pc, matrix, ret>>

\* -------------------------------------------------------- sparse assembler
\* A stored entry: val * sqrt(rad[1] / rad[2]) * 1e-12 ^ (te / 2).  Entries
\* that were not rescaled have rad = <<1, 1>> and te = 0.
Entry(i, j, v) == [row |-> i, col |-> j, val |-> v, rad |-> <<1, 1>>, te |-> 0]

\* The rows that hold entries numbered consecutively, each number repeated
\* once per entry: a row without entries takes no number.
RepeatPacked(neighbors) ==
    Concat([k \in 1 .. NRows |->
               [m \in 1 .. Len(neighbors[k - 1]) |->
                   Cardinality({x \in 1 .. (k - 1) : Len(neighbors[x - 1]) > 0})]])

\* np.repeat(np.arange(len(neighbors)), lengths): each row number repeated
\* len(neighbors[row]) times.
Repeat(neighbors) ==
    Concat([k \in 1 .. NRows |-> [m \in 1 .. Len(neighbors[k - 1]) |-> k - 1]])

\* construct_sparse: j and the data are the concatenated rows; entry m is
\* (i[m], j[m]) -> data[m].
ConstructSparse(neighbors, weights) ==
    CHOOSE t \in {{Entry(i[m], j[m], data[m]) : m \in 1 .. Len(j)} :
                     i \in {Repeat(neighbors)},
                     j \in {Concat([k \in 1 .. NRows |-> neighbors[k - 1]])},
                     data \in {Concat([k \in 1 .. NRows |-> weights[k - 1]])}} : TRUE

\* Every row is stored: the rows are merged into one matrix.  ppr_topk and
\* topk_gpr_matrix return it; topk_ppr_matrix goes on to normalize it.
Assemble ==
    /\ pc = "batch"
    /\ \A i \in Rows : tpc[i] = "done"
    /\ matrix' = ConstructSparse(js, vals)
    /\ pc' = IF entry = "topk_ppr_matrix" THEN "assembled" ELSE "returned"
    /\ ret' = IF entry = "topk_ppr_matrix" THEN ret ELSE <<"matrix", matrix'>>
    /\ UNCHANGED <<graphView, params, tasks, outputs>>

\* -------------------------------------------------------------- normalizer
\* deg = A.sum(1).A1; every stored weight of A is 1.
WDeg(u) == RowLen(u)

\* deg_sqrt[idx[row]] * data * deg_inv_sqrt[col], degrees floored at 1e-12.
SymScaled(e, s, j) ==
    LET ds == WDeg(s)
        dj == WDeg(j)
    IN  [e EXCEPT !.rad = IF ds > 0 /\ dj > 0 THEN Norm(ds, dj)
                          ELSE IF ds > 0 THEN <<ds, 1>>
                          ELSE IF dj > 0 THEN <<1, dj>>
                          ELSE <<1, 1>>,
                  !.te = IF ds > 0 /\ dj = 0 THEN -1
                         ELSE IF ds = 0 /\ dj > 0 THEN 1
                         ELSE 0]

\* deg[idx[row]] * data * deg_inv[col]; only deg_inv is floored at 1e-12.
ColScaled(e, s, j) ==
    LET ds == WDeg(s)
        dj == WDeg(j)
        v == MulInt(e.val, ds)
    IN  IF dj > 0 THEN [e EXCEPT !.val = DivInt(v, dj)]
        ELSE [e EXCEPT !.val = v, !.te = IF v = Zero THEN 0 ELSE -2]

Scaled(e, s, j) ==
    IF normalization = "sym" THEN SymScaled(e, s, j) ELSE ColScaled(e, s, j)

\* row, col = topk_matrix.nonzero() lists the entries whose value is not 0, in
\* the order of topk_matrix.data.  With as many positions as stored values
\* each value is rescaled at its own position; one position broadcasts over
\* every value; any other count cannot be broadcast (a ValueError).
Rescale(m) ==
    LET nz == {e \in m : e.val # Zero}
    IN  IF nz = m
        THEN {Scaled(e, nodes[e.row + 1], e.col) : e \in m}
        ELSE LET o == CHOOSE e \in nz : TRUE
             IN  {Scaled(e, nodes[o.row + 1], o.col) : e \in m}

CanBroadcast(m) ==
    LET nz == {e \in m : e.val # Zero}
    IN  nz = m \/ Cardinality(nz) = 1

\* topk_matrix[:adj_matrix.size(0), adj_matrix.size(0):]
Slice(m) ==
    {[e EXCEPT !.col = e.col - nsrc] : e \in {f \in m : f.row < nsrc /\ f.col >= nsrc}}

\* The if/elif chain on normalization, then the return.
Normalize ==
    /\ pc = "assembled"
    /\ IF normalization \in {"sym", "col"} /\ CanBroadcast(matrix)
       THEN /\ matrix' = Rescale(matrix)
            /\ pc' = "returned"
            /\ ret' = <<"matrix", IF flag THEN matrix' ELSE Slice(matrix')>>
       ELSE IF normalization = "row"
       THEN /\ matrix' = matrix
            /\ pc' = "returned"
            /\ ret' = <<"matrix", IF flag THEN matrix ELSE Slice(matrix)>>
       ELSE /\ matrix' = matrix
            /\ pc' = "raised"
            /\ ret' = <<"ValueError",
                        IF normalization \in {"sym", "col"}
                        THEN "operands could not be broadcast"
                        ELSE normalization>>
    /\ UNCHANGED <<graphView, params, tasks, outputs>>

\* ------------------------------------------------------------------ inputs
Pairs == {e \in Node \X Node : e[1] < e[2]}

SymClose(E) == E \cup {<<e[2], e[1]>> : e \in E}

\* Every undirected graph on Node without self-loops, as a symmetric edge set.
SymGraphs == {SymClose(E) : E \in SUBSET Pairs}

\* The same graphs with at most MaxOneWay edges stored in one direction only.
Graphs ==
    UNION {{g \ D : D \in {X \in SUBSET g : Cardinality(X) <= MaxOneWay}} :
              g \in SymGraphs}

Quarter == <<1, 4>>
Half == <<1, 2>>
Eighth == <<1, 8>>

\* The graph view of edge set g: the CSR arrays, and the out-degree counted
\* from the positive stored weights; the rows in zr store no positive weight.
InitGraph(g, zr) ==
    /\ indptr = IndptrOf(g)
    /\ indices = IndicesOf(g)
    /\ LET ptr == IndptrOf(g)
           pos == [k \in 1 .. Cardinality(g) |->
                      \A u \in zr : ~(ptr[u + 1] < k /\ k <= ptr[u + 2])]
       IN  deg = [u \in Node |-> OutDegree(ptr, pos, u)]

\* js = [np.zeros(0)] * len(nodes), vals likewise; no row has started.
InitTasks ==
    /\ tpc = [i \in Rows |-> "idle"]
    /\ p = [i \in Rows |-> <<>>]
    /\ r = [i \in Rows |-> <<>>]
    /\ q = [i \in Rows |-> <<>>]
    /\ unode = [i \in Rows |-> -1]
    /\ js = [i \in Rows |-> <<>>]
    /\ vals = [i \in Rows |-> <<>>]
    /\ pc = "batch"
    /\ matrix = {}
    /\ ret = <<"none", "">>

\* A call of ppr_topk(adj_matrix, alpha, epsilon, nodes, topk).
InitPprTopk(G, ZR, A, E, N, K, S) ==
    /\ entry = "ppr_topk"
    /\ \E g \in G : \E zr \in ZR : InitGraph(g, zr)
    /\ nsrc = 0
    /\ alpha \in A
    /\ epsilon \in E
    /\ nodes \in N
    /\ train_idx = <<>>
    /\ topk \in K
    /\ stable \in S
    /\ normalization = "row"
    /\ flag = TRUE
    /\ InitTasks

\* A call of topk_gpr_matrix(adj_matrix, alpha, eps, train_idx, topk).
InitGprMatrix(G, ZR, A, E, L, K, S) ==
    /\ entry = "topk_gpr_matrix"
    /\ \E g \in G : \E zr \in ZR : InitGraph(g, zr)
    /\ nsrc = 0
    /\ alpha \in A
    /\ epsilon \in E
    /\ nodes = <<>>
    /\ train_idx \in L
    /\ topk \in K
    /\ stable \in S
    /\ normalization = "row"
    /\ flag = TRUE
    /\ InitTasks

\* A call of topk_ppr_matrix(adj_matrix, flag, alpha, eps, idx, topk,
\* normalization): adj_matrix is nsrc x (NNodes - nsrc), and A holds a one for
\* each of its entries in both directions.
Cross(n) == {e \in Node \X Node : e[1] < n /\ e[2] >= n}

InitPprMatrix(NS, A, E, N, K, S, M, F) ==
    /\ entry = "topk_ppr_matrix"
    /\ nsrc \in NS
    /\ \E c \in SUBSET Cross(nsrc) : InitGraph(SymClose(c), {})
    /\ alpha \in A
    /\ epsilon \in E
    /\ nodes \in N
    /\ train_idx = <<>>
    /\ topk \in K
    /\ stable \in S
    /\ normalization \in M
    /\ flag \in F
    /\ InitTasks

\* One seed, no truncation: the push computation of every node of every graph.
Init ==
    InitPprTopk(Graphs, {{}}, {Quarter, Half, One}, {Quarter, Eighth},
                {<<s>> : s \in Node}, {0}, {TRUE})

Next ==
    \/ \E i \in Rows : Start(i)
    \/ \E i \in Rows : Pop(i)
    \/ \E i \in Rows : Finish(i)
    \/ Assemble

Spec == Init /\ [][Next]_vars

\* Adjacencies that store non-positive weights: the rows in zr count no
\* out-degree although their CSR rows hold neighbours.
InitDeg ==
    InitPprTopk(SymGraphs, SUBSET Node, {Half}, {Quarter},
                {<<s>> : s \in Node}, {0}, {TRUE})

\* A row's loop runs on until it returns or raises: every enabled step is
\* eventually taken.
SpecDeg == InitDeg /\ [][Next]_vars /\ WF_vars(Next)

\* The same adjacencies under the class-aggregated push, one or two classes.
InitDegClasses ==
    InitGprMatrix(SymGraphs, SUBSET Node, {Half}, {Quarter},
                  [1 .. NNodes -> {0, 1}], {0}, {TRUE})

SpecDegClasses == InitDegClasses /\ [][Next]_vars /\ WF_vars(Next)

\* Parameters outside alpha in (0, 1), epsilon > 0.
OutOfRange ==
    {<<Zero, Quarter>>, <<Zero, Zero>>, <<One, Zero>>, <<<<2, 1>>, Quarter>>,
     <<<<-1, 2>>, Quarter>>}

InitOOR ==
    \E ae \in OutOfRange :
        InitPprTopk(Graphs, {{}}, {ae[1]}, {ae[2]},
                    {<<s>> : s \in Node}, {0}, {TRUE})

SpecOOR == InitOOR /\ [][Next]_vars /\ WF_vars(Next)

\* Batches of two rows on parallel workers, with and without truncation.
SeedPairs == {<<s, t>> : s \in Node, t \in Node}

InitBatch ==
    InitPprTopk(SymGraphs, {{}}, {Half}, {Quarter}, SeedPairs,
                0 .. MaxTopk, BOOLEAN)

SpecBatch == InitBatch /\ [][Next]_vars

\* Class-aggregated batches whose labels may skip a class.
Labels == [1 .. NNodes -> {0, MaxLabel - 1, MaxLabel}]

InitClasses ==
    InitGprMatrix(SymGraphs, {{}}, {Half}, {Quarter}, Labels,
                  0 .. MaxTopk, {TRUE})

SpecClasses == InitClasses /\ [][Next]_vars

\* Calls of topk_ppr_matrix in every normalization mode and one unknown mode.
Modes == {"sym", "col", "row", "max"}

InitMatrix ==
    InitPprMatrix(1 .. (NNodes - 1), {Half}, {Quarter}, SeedPairs, {0, 1},
                  {TRUE}, Modes, BOOLEAN)

NextMatrix == Next \/ Normalize

SpecMatrix == InitMatrix /\ [][NextMatrix]_vars

\* Single-seed pushes on every graph together with the class-aggregated
\* batches.
InitPushes == Init \/ InitClasses

SpecPushes == InitPushes /\ [][Next]_vars

\* The undirected ring 0-1, 1-2, 2-3, 3-0 under ppr_topk, alpha = 0.5, no
\* truncation; epsilon is numba.float32(1e-3), or float32(1e-2), or 1/16.
Ring == 0 .. 3

RingEdges == SymClose({<<u, (u + 1) % Cardinality(Ring)>> : u \in Ring})

Milli == <<8589935, -33>>

Centi == <<5368709, 2 ^ 29>>

InitRing ==
    /\ entry = "ppr_topk"
    /\ indptr = [k \in 1 .. (Cardinality(Ring) + 1) |->
                    Cardinality({e \in RingEdges : e[1] < k - 1})]
    /\ indices = Concat([k \in 1 .. Cardinality(Ring) |-> RowOf(RingEdges, k - 1)])
    /\ deg = [u \in Ring |-> Cardinality({e \in RingEdges : e[1] = u})]
    /\ nsrc = 0
    /\ alpha = Half
    /\ epsilon \in {Milli, Centi, <<1, 16>>}
    /\ nodes \in {<<s>> : s \in Ring}
    /\ train_idx = <<>>
    /\ topk = 0
    /\ stable = TRUE
    /\ normalization = "row"
    /\ flag = TRUE
    /\ InitTasks

SpecRing == InitRing /\ [][Next]_vars

\* Class-aggregated batches in which every node is a class of its own, on the
\* graphs of one undirected edge; alpha is 5/16, 3/8, 7/16 or 1/2 and epsilon
\* 1/16.
OneEdge == {SymClose({e}) : e \in Pairs}

Singletons ==
    {l \in [1 .. NNodes -> Node] : \A a, b \in 1 .. NNodes : l[a] = l[b] => a = b}

InitSingletons ==
    InitGprMatrix(OneEdge, {{}}, {<<5, 16>>, <<3, 8>>, <<7, 16>>, Half},
                  {<<1, 16>>}, Singletons, {0}, {TRUE})

SpecSingletons == InitSingletons /\ [][Next]_vars

\* ---------------------------------------------------------------- measures
Started(i) == tpc[i] \in {"loop", "done"}

SumP(i) == SumSeq(Values(p[i]))

SumR(i) == SumSeq(Values(r[i]))

PVal(i, v) == IF Has(p[i], v) THEN Get(p[i], v) ELSE Zero

RVal(i, v) == IF Has(r[i], v) THEN Get(r[i], v) ELSE Zero

\* The supplied degree of every node is the length of its CSR row.
DegreeIsRowLength == \A u \in Node : deg[u] = RowLen(u)

NoSink == \A u \in Node : RowLen(u) > 0

Symmetric == \A u \in Node : \A v \in Node : InSeq(v, Row(u)) <=> InSeq(u, Row(v))

InUnit(x) == Gt(x, Zero) /\ Gt(One, x)

\* The exact personalized PageRank vector pi of seed s, the solution of
\* pi = alpha e_s + (1 - alpha) pi P with P[u][v] = 1 / RowLen(u) on the edges
\* (a row without edges is zero), by Cramer's rule on the integer matrix
\* K[u][v] = b d(u) [u = v] - (b - a) [u -> v], where alpha = a / b.
RECURSIVE SumInts(_, _)
SumInts(f, S) ==
    IF S = {} THEN 0
    ELSE LET c == CHOOSE x \in S : TRUE IN f[c] + SumInts(f, S \ {c})

RECURSIVE Det(_, _, _)
Det(M, i, cols) ==
    IF cols = {} THEN 1
    ELSE LET term == [c \in cols |->
                 (IF Cardinality({x \in cols : x < c}) % 2 = 0 THEN 1 ELSE -1)
                 * (IF M[i][c] = 0 THEN 0 ELSE M[i][c] * Det(M, i + 1, cols \ {c}))]
         IN  SumInts(term, cols)

PprD(u) == IF RowLen(u) > 0 THEN RowLen(u) ELSE 1

PprK ==
    [u \in Node |-> [v \in Node |->
        (IF u = v THEN alpha[2] * PprD(u) ELSE 0)
        - (IF InSeq(v, Row(u)) THEN alpha[2] - alpha[1] ELSE 0)]]

TruePPR(s, v) ==
    LET Kt == [x \in Node |-> [y \in Node |-> PprK[y][x]]]
        Kv == [x \in Node |-> [y \in Node |->
                   IF y = v THEN (IF x = s THEN 1 ELSE 0) ELSE Kt[x][y]]]
        d == Det(Kt, 0, Node)
        n == alpha[1] * PprD(v) * Det(Kv, 0, Node)
    IN  IF d < 0 THEN Norm(-n, -d) ELSE Norm(n, d)

\* |p(v) - true_PPR(v)| <= epsilon * degree(v) for every node of row i.
WithinBound(i) ==
    \A v \in Node :
        Leq(RAbs(Sub(PVal(i, v), TruePPR(Seeds(i)[1], v))), MulInt(epsilon, deg[v]))

\* ------------------------------------------------------------------ claims
\* C1 as stated: after the initialisation and after every pop step of a push
\* computation, sum(p) + sum(r) = alpha.
C1_MassConserved ==
    \A i \in Rows : Started(i) => Add(SumP(i), SumR(i)) = alpha

\* C1 as amended: when every node has at least one neighbour and its degree is
\* the length of its CSR row, alpha * sum(p) + sum(r) = alpha after the
\* initialisation and after every pop step of a single-seed push.
C1_ScaledMassConserved ==
    \A i \in Rows :
        (Started(i) /\ DegreeIsRowLength /\ NoSink /\ entry # "topk_gpr_matrix")
            => Add(Mul(alpha, SumP(i)), SumR(i)) = alpha

\* A push without sinks that has popped twice and still holds residual.
C1_Witness ==
    \E i \in Rows :
        /\ tpc[i] = "loop" /\ DegreeIsRowLength /\ NoSink /\ InUnit(alpha)
        /\ Len(p[i]) >= 2
        /\ Gt(SumR(i), Zero)

\* C2 as stated: on every graph the returned p is within epsilon * degree(v)
\* of the exact personalized PageRank of the seed, at every node v.
C2_Approximation ==
    \A i \in Rows : (tpc[i] = "done" /\ InUnit(alpha)) => WithinBound(i)

\* C2 as amended: the bound holds on every undirected graph (symmetric
\* adjacency) whose degrees are the lengths of the CSR rows.
C2_ApproximationUndirected ==
    \A i \in Rows :
        (tpc[i] = "done" /\ InUnit(alpha) /\ Symmetric /\ DegreeIsRowLength)
            => WithinBound(i)

\* A finished push on an undirected graph that left residual behind and
\* whose p differs from the exact vector at some node.
C2_Witness ==
    \E i \in Rows :
        /\ tpc[i] = "done" /\ InUnit(alpha) /\ Symmetric /\ DegreeIsRowLength
        /\ Gt(SumR(i), Zero)
        /\ Len(p[i]) >= 2
        /\ \E v \in Node : PVal(i, v) # TruePPR(Seeds(i)[1], v)

\* C4: with alpha = 1 the push returns exactly p = {seed: 1}, whatever the
\* graph: no other node appears in p, not even with value 0.
C4_ExactRestart ==
    \A i \in Rows :
        (tpc[i] = "done" /\ alpha = One /\ entry # "topk_gpr_matrix")
            => p[i] = <<<<Seeds(i)[1], One>>>>

\* C3: for alpha in (0, 1) and epsilon > 0 the push loop of every row reaches
\* an empty worklist and returns, on any finite graph.
C3_Terminates ==
    (InUnit(alpha) /\ Gt(epsilon, Zero)) => <>(\A i \in Rows : tpc[i] = "done")

\* C8: a pop of a node u whose supplied degree is 0 settles r(u) into p(u),
\* divides by nothing and changes no other node's residual.
C8_DegreeZeroSkipped ==
    [][\A i \in Rows :
          (Pop(i) /\ deg[q[i][Len(q[i])]] = 0) =>
              LET u == q[i][Len(q[i])]
              IN  /\ tpc'[i] = "loop"
                  /\ \A v \in Node \ {u} :
                        /\ Has(r'[i], v) <=> Has(r[i], v)
                        /\ Has(r[i], v) => Get(r'[i], v) = Get(r[i], v)
                  /\ Get(p'[i], u) = Add(PVal(i, u), RVal(i, u))]_vars

\* C9: with alpha outside (0, 1) or epsilon <= 0 the call still completes and
\* returns a result.
C9_OutOfRangeReturns ==
    (~InUnit(alpha) \/ ~Gt(epsilon, Zero)) => <>(pc = "returned")

\* C7: called with a normalization other than 'sym', 'col', 'row',
\* topk_ppr_matrix starts no push computation and returns no matrix, and the
\* error it raises names the unrecognized string.
C7_InvalidModeImmediate ==
    (entry = "topk_ppr_matrix" /\ normalization \notin {"sym", "col", "row"}) =>
        /\ \A i \in Rows : tpc[i] = "idle"
        /\ pc # "returned"
        /\ pc = "raised" => ret = <<"ValueError", normalization>>

\* The position in js[i], vals[i] of the entries kept for row i.
Kept(i) == 1 .. Len(js[i])

Min(a, b) == IF a < b THEN a ELSE b

\* C5: for topk > 0 a stored row holds min(topk, |p|) distinct entries of the
\* untruncated p, each with the value p gives its node, and none of them is
\* smaller than an entry left out; for topk <= 0 it is the whole of p.
C5_TopkCorrect ==
    \A i \in Rows :
        tpc[i] = "done" =>
            /\ Len(vals[i]) = Len(js[i])
            /\ topk > 0 =>
                  /\ Len(js[i]) = Min(topk, Len(p[i]))
                  /\ \A k \in Kept(i) : \A m \in Kept(i) : js[i][k] = js[i][m] => k = m
                  /\ \A k \in Kept(i) :
                        /\ Has(p[i], js[i][k])
                        /\ vals[i][k] = Get(p[i], js[i][k])
                  /\ \A v \in KeySet(p[i]) \ {js[i][k] : k \in Kept(i)} :
                        \A k \in Kept(i) : Geq(vals[i][k], Get(p[i], v))
            /\ topk <= 0 => js[i] = Keys(p[i]) /\ vals[i] = Values(p[i])

\* A stored row that was truncated: p holds more than topk entries, of
\* different values.
C5_Witness ==
    \E i \in Rows :
        /\ tpc[i] = "done" /\ topk > 0 /\ Len(p[i]) > topk
        /\ \E v \in KeySet(p[i]) : \E k \in Kept(i) : Gt(vals[i][k], Get(p[i], v))

\* C6: however the rows are interleaved, the row stored for i is the row the
\* sequential driver computes from the seeds of i alone, truncated alike.
C6_RowsIndependent ==
    \A i \in Rows :
        tpc[i] = "done" =>
            \E seq \in {calc_ppr(i)} : \E idx_topk \in {IdxTopk(seq[2])} :
                /\ js[i] = Take(seq[1], idx_topk)
                /\ vals[i] = Take(seq[2], idx_topk)

\* Out of order: the second row is stored, with more than one entry, while
\* the first row, of another seed, is in the middle of its loop.
C6_Witness ==
    /\ entry = "ppr_topk"
    /\ nodes[1] # nodes[2]
    /\ tpc[1] = "done" /\ Len(js[1]) > 1
    /\ tpc[0] = "loop" /\ unode[0] >= 0 /\ Len(q[0]) > 0

\* The entries of row i in the matrix the call returned.
MatrixRow(i) == {e \in matrix : e.row = i}

\* C10: a class no node carries stores an empty row and raises nothing, and
\* the matrix returned holds no entry in that row and, in every other row,
\* the entries of that class's own push.
C10_EmptyClass ==
    (entry = "topk_gpr_matrix" /\ \E i \in Rows : Seeds(i) = <<>>) =>
        /\ pc # "raised"
        /\ \A i \in Rows :
              (tpc[i] = "done" /\ Seeds(i) = <<>>) => js[i] = <<>> /\ vals[i] = <<>>
        /\ pc = "returned" =>
              /\ ret = <<"matrix", matrix>>
              /\ \A i \in Rows :
                    \E seq \in {calc_ppr(i)} : \E idx_topk \in {IdxTopk(seq[2])} :
                        /\ Seeds(i) = <<>> => MatrixRow(i) = {}
                        /\ MatrixRow(i) =
                              {Entry(i, seq[1][idx_topk[k]], seq[2][idx_topk[k]]) :
                                  k \in 1 .. Len(idx_topk)}

\* A returned matrix with an empty class below a class that has entries.
C10_Witness ==
    /\ entry = "topk_gpr_matrix"
    /\ pc = "returned"
    /\ \E i \in Rows : Seeds(i) = <<>> /\ \E e \in matrix : e.row > i

\* The ring scenario: seed 0 and epsilon = 1e-3 on the ring.
RingScenario ==
    /\ DOMAIN deg = Ring
    /\ \A u \in Ring : Row(u) = RowOf(RingEdges, u)
    /\ alpha = Half /\ epsilon = Milli /\ nodes = <<0>> /\ topk = 0

\* The value row i returned for node v, 0 when v is not in the row.
Returned(i, v) ==
    IF \E k \in 1 .. Len(js[i]) : js[i][k] = v
    THEN vals[i][CHOOSE k \in 1 .. Len(js[i]) : js[i][k] = v]
    ELSE Zero

\* C11 as stated: in the ring scenario the sum of the returned values differs
\* from alpha by at most epsilon * nnodes.
C11_RingSumNearAlpha ==
    (RingScenario /\ tpc[0] = "done") =>
        Leq(RAbs(Sub(SumSeq(vals[0]), alpha)), MulInt(epsilon, Cardinality(Ring)))

\* C11 as amended: in the ring scenario the sum of the returned values differs
\* from 1 by at most epsilon * nnodes.
C11_RingSumNearOne ==
    (RingScenario /\ tpc[0] = "done") =>
        Leq(RAbs(Sub(SumSeq(vals[0]), One)), MulInt(epsilon, Cardinality(Ring)))

\* The ring scenario has returned a value for every node of the ring.
C11_Witness ==
    RingScenario /\ pc = "returned" /\ {js[0][k] : k \in 1 .. Len(js[0])} = Ring

\* C12: in the ring scenario p[0] > p[1], p[0] > p[3], p[1] > p[2], p[3] > p[2].
C12_RingOrdering ==
    (RingScenario /\ tpc[0] = "done") =>
        /\ Gt(Returned(0, 0), Returned(0, 1))
        /\ Gt(Returned(0, 0), Returned(0, 3))
        /\ Gt(Returned(0, 1), Returned(0, 2))
        /\ Gt(Returned(0, 3), Returned(0, 2))

\* The ring scenario has stored its row, the far node 2 with a positive value.
C12_Witness ==
    RingScenario /\ tpc[0] = "done" /\ Gt(Returned(0, 2), Zero)

\* degree(s) * v / degree(j) with both degrees floored at 1e-12: a floored
\* degree of the seed leaves the factor 1e-12, one of the column 1e12.
ColFloored(e, s, j) ==
    LET ds == WDeg(s)
        dj == WDeg(j)
        v == IF ds > 0 THEN MulInt(e.val, ds) ELSE e.val
    IN  [e EXCEPT !.val = IF dj > 0 THEN DivInt(v, dj) ELSE v,
                  !.te = (IF ds > 0 THEN 0 ELSE 2) - (IF dj > 0 THEN 0 ELSE 2)]

\* C13: under 'col' the matrix returned holds, for every stored entry (i, j) of
\* the unnormalized matrix, that value scaled by degree(s_i) / degree(j), both
\* degrees floored at 1e-12, each entry at its own position.
C13_ColumnNormalized ==
    (entry = "topk_ppr_matrix" /\ normalization = "col" /\ pc = "returned") =>
        \E m \in {{ColFloored(e, nodes[e.row + 1], e.col) :
                      e \in ConstructSparse(js, vals)}} :
            ret = <<"matrix", IF flag THEN m ELSE Slice(m)>>

\* An entry named by the seed of its row: <<seed, column, value>>.
BySeed(e, shift) == <<nodes[e.row + 1], e.col + shift, e.val, e.rad, e.te>>

\* C14: the matrix returned with the flag false holds precisely the entries of
\* the full matrix (what the flag true returns) whose row belongs to a seed of
\* the source partition and whose column is a node of the target partition,
\* values unchanged.
C14_SliceIsSourceToTarget ==
    (entry = "topk_ppr_matrix" /\ pc = "returned" /\ ~flag) =>
        {BySeed(e, nsrc) : e \in ret[2]} =
            {BySeed(e, 0) : e \in {f \in matrix : nodes[f.row + 1] < nsrc /\ f.col >= nsrc}}

\* The activation threshold of node v: alpha * epsilon * degree(v).
Threshold(v) == MulInt(alpha_eps, deg[v])

\* C15 as stated: when the loop has ended every node, of whatever degree, has
\* its residual strictly below its activation threshold.
C15_ResidualBelowThreshold ==
    \A i \in Rows :
        (tpc[i] = "done" /\ InUnit(alpha) /\ Gt(epsilon, Zero)) =>
            \A v \in Node : Gt(Threshold(v), RVal(i, v))

\* C15 as amended: when the loop has ended every node of positive degree has
\* its residual strictly below its activation threshold, and every node of
\* degree 0 has residual 0.
C15_ResidualBelowPositiveThreshold ==
    \A i \in Rows :
        (tpc[i] = "done" /\ InUnit(alpha) /\ Gt(epsilon, Zero)) =>
            \A v \in Node :
                IF deg[v] > 0 THEN Gt(Threshold(v), RVal(i, v)) ELSE RVal(i, v) = Zero

\* A finished push that left residual at a node of positive degree and
\* reached a node of degree 0.
C15_Witness ==
    \E i \in Rows :
        /\ tpc[i] = "done" /\ InUnit(alpha) /\ Gt(epsilon, Zero)
        /\ \E v \in Node : deg[v] > 0 /\ Gt(RVal(i, v), Zero)
        /\ \E v \in Node : deg[v] = 0 /\ Has(r[i], v) /\ v # Seeds(i)[1]

\* C16: no node id occurs twice in a worklist.
C16_WorklistDistinct ==
    \A i \in Rows :
        \A a \in 1 .. Len(q[i]) : \A b \in 1 .. Len(q[i]) : q[i][a] = q[i][b] => a = b

\* After a pop, a neighbour of the popped node waits in a worklist of two or
\* more nodes with a residual at or above its threshold.
C16_Witness ==
    \E i \in Rows :
        /\ tpc[i] = "loop" /\ unode[i] >= 0 /\ Len(q[i]) >= 2
        /\ \E v \in Node :
              /\ InSeq(v, Row(unode[i])) /\ InSeq(v, q[i])
              /\ Geq(RVal(i, v), Threshold(v))
              /\ v # q[i][Len(q[i])]

\* C17: a step of the task of row i leaves the graph view as it was and
\* changes p, r, q, js, vals of no other row.
C17_RowFrame ==
    [][\A i \in Rows :
          \/ /\ graphView' = graphView
             /\ \A j \in Rows \ {i} :
                   /\ p'[j] = p[j] /\ r'[j] = r[j] /\ q'[j] = q[j]
                   /\ js'[j] = js[j] /\ vals'[j] = vals[j]
          \/ ~(Start(i) \/ Pop(i) \/ Finish(i))]_vars

\* The second row has stored its entries while the first is in its loop, its
\* slot still empty.
C17_Witness ==
    /\ entry = "ppr_topk"
    /\ tpc[1] = "done" /\ Len(js[1]) > 0
    /\ tpc[0] = "loop" /\ unode[0] >= 0 /\ js[0] = <<>>

\* The state in which the compiled single-seed push from s ends.
SingleSeedPush(s) == RunPush([PushInit(<<s>>) EXCEPT !.njit = TRUE])

\* C18: a class whose seed set is the one node s has settled, when its push
\* has returned, exactly the vector p the single-seed push from s settles on
\* the same graph with the same alpha and epsilon.
C18_SingletonAsSingleSeed ==
    \A i \in Rows :
        (entry = "topk_gpr_matrix" /\ tpc[i] = "done" /\ Len(Seeds(i)) = 1) =>
            \E single \in {SingleSeedPush(Seeds(i)[1])} :
                single.st # "error" => p[i] = single.p

\* The supplied degree of every node with a non-empty CSR row is the length of
\* the row.
DegreeIsLengthOfNonEmptyRows == \A u \in Node : RowLen(u) > 0 => deg[u] = RowLen(u)

InUnitOrOne(x) == InUnit(x) \/ x = One

\* alpha * sum(p) + sum(r) of row i.
ScaledMass(i) == Add(Mul(alpha, SumP(i)), SumR(i))

\* alpha * |S| of row i.
SeedMass(i) == MulInt(alpha, Len(Seeds(i)))

\* C19 as stated: when the degree of every node with a non-empty row is the
\* length of the row and alpha is in (0,1], alpha * sum(p) + sum(r) equals
\* alpha * |S| at every step of a push from the seed set S.
C19_SeedMassKept ==
    \A i \in Rows :
        (Started(i) /\ DegreeIsLengthOfNonEmptyRows /\ InUnitOrOne(alpha))
            => ScaledMass(i) = SeedMass(i)

\* C19 as amended: under the same proviso alpha * sum(p) + sum(r) never
\* exceeds alpha * |S|, it equals alpha * |S| when no CSR row is empty, and
\* the returned sum(p) never exceeds |S|.
C19_SeedMassBounds ==
    \A i \in Rows :
        (Started(i) /\ DegreeIsLengthOfNonEmptyRows /\ InUnitOrOne(alpha))
            => /\ Leq(ScaledMass(i), SeedMass(i))
               /\ NoSink => ScaledMass(i) = SeedMass(i)
               /\ tpc[i] = "done" => Leq(SumP(i), <<Len(Seeds(i)), 1>>)

\* A class of two seeds or more, on a graph without empty rows, that has
\* popped a node and still holds residual.
C19_Witness ==
    \E i \in Rows :
        /\ entry = "topk_gpr_matrix" /\ Len(Seeds(i)) >= 2
        /\ DegreeIsLengthOfNonEmptyRows /\ NoSink /\ InUnit(alpha)
        /\ tpc[i] = "loop" /\ unode[i] >= 0
        /\ Gt(SumR(i), Zero)

SeqSet(sq) == {sq[k] : k \in 1 .. Len(sq)}

\* What a step of row i does to the keys of p: the start makes them the seeds,
\* a pop adds the popped node and no other, and the return hands all of them
\* to the driver, which keeps them all when topk = 0.
SupportStep(i) ==
    /\ KeySet(p'[i]) = SeqSet(Seeds(i)) \/ ~Start(i)
    /\ \/ Len(q[i]) > 0 /\ KeySet(p'[i]) = KeySet(p[i]) \cup {q[i][Len(q[i])]}
       \/ ~Pop(i)
    /\ \/ /\ SeqSet(js'[i]) \subseteq KeySet(p[i])
          /\ topk = 0 => SeqSet(js'[i]) = KeySet(p[i])
       \/ ~Finish(i)

\* C20: the nodes in the returned p are the seeds and the nodes popped from the
\* worklist (every step changes the keys of p as SupportStep says, so a node
\* that only received residual is never added), and for alpha in (0,1) and
\* epsilon > 0 every value of p, and so every value returned, is above zero.
C20_SupportAndPositive ==
    /\ [][\A i \in Rows : SupportStep(i)]_vars
    /\ [](\A i \in Rows :
             (Started(i) /\ InUnit(alpha) /\ Gt(epsilon, Zero)) =>
                 /\ \A k \in 1 .. Len(p[i]) :
                       p[i][k][1] \in SeqSet(Seeds(i)) \/ Gt(p[i][k][2], Zero)
                 /\ tpc[i] = "done" =>
                       /\ \A k \in 1 .. Len(p[i]) : Gt(p[i][k][2], Zero)
                       /\ \A k \in 1 .. Len(vals[i]) : Gt(vals[i][k], Zero))

\* A returned row that holds a node other than its seeds and leaves out a node
\* that received residual.
C20_Witness ==
    \E i \in Rows :
        /\ tpc[i] = "done" /\ InUnit(alpha) /\ Gt(epsilon, Zero) /\ topk = 0
        /\ SeqSet(js[i]) \ SeqSet(Seeds(i)) # {}
        /\ \E v \in Node : Gt(RVal(i, v), Zero) /\ v \notin SeqSet(js[i])

====
